---- MODULE Spec2Model ----
(***************************************************************************)
(* Model of src/main/resources/python/tracer.py: the FunctionTracer        *)
(* controller (enable / disable / update_functions / get_results), its     *)
(* trace hook _trace_function chained to a previously installed hook, the  *)
(* wrappers it installs for built-in (opaque) functions, and the           *)
(* FunctionStats table.                                                    *)
(*                                                                         *)
(* The interpreter side that the tracer talks to is modelled as the code   *)
(* uses it: sys.settrace/sys.gettrace is one global slot (globalSlot); a   *)
(* new frame's 'call' event goes to the hook in the slot and the value the *)
(* hook returns becomes the frame's local trace function (f_trace); later  *)
(* events of the frame go to f_trace, and a non-None return value replaces *)
(* f_trace while None leaves it as it is.  A module attribute that holds a *)
(* built-in function is binding[g].                                        *)
(***************************************************************************)
EXTENDS Integers, Sequences, FiniteSets, TLC

\* ---------------------------------------------------------------- bounds
MaxTime == 1          \* time.perf_counter() takes the values 0..MaxTime
MaxCalls == 2         \* frames started plus wrapper invocations started
MaxDepth == 2         \* live frames (nesting depth) and frame identities
MaxInv == 1           \* wrapper invocations in flight
MaxSessions == 2      \* enable calls that start a session
MaxThreads == 2       \* threads that run a wrapper at the same time

\* ------------------------------------------------------------ the universe
Insp == {"f"}              \* functions with __code__ (inspectable)
Opq == {"g", "k", "m"}     \* callables without __code__ (built-in, opaque)
Funcs == Insp \cup Opq
FrameIds == 1..MaxDepth    \* values of id(frame): the depth of the frame
NoArg == {"None"}          \* enable() without a list (functions=None)
\* the lists passed to enable and update_functions: by a caller that
\* traces Python functions, by one that traces built-ins, and mixed lists
TraceLists == {{}, {"f"}}
WrapLists == {{"g"}, {"g", "k"}}
ThreadLists == {{"g"}}
FunctionLists == {{}, {"f", "g"}, {"g"}, {"g", "k"}, {"m"}}
\* the functions that carry the @FunctionTracer.trace decorator
Decorated == {"f"}
HookResults == {"none", "L"}   \* what the previous hook returns for an event
\* the same for a previous hook that can also fail with an exception
HookOutcomes == HookResults \cup {"raise"}

\* float('inf'), the initial min_time of a FunctionStats
INF == 1000000

Min(a, b) == IF a <= b THEN a ELSE b
Max(a, b) == IF a >= b THEN a ELSE b

\* hasattr(func, '__module__') and importlib/setattr succeed for func: the
\* built-in "m" stands for one whose module cannot be resolved
Resolvable(g) == g # "m"

\* callable objects that a module attribute can hold
OrigC(g) == [kind |-> "orig", f |-> g, target |-> g]
WrapC(g, t) == [kind |-> "wrap", f |-> g, target |-> t]

VARIABLES
  enabled,                  \* self._enabled
  traced_functions,         \* self._traced_functions
  decorated_functions,      \* self._decorated_functions
  stats,                    \* self._stats: function -> FunctionStats object
  call_stack,               \* self._call_stack: id(frame) -> (func, start)
  original_trace_function,  \* self._original_trace_function
  builtin_functions,        \* self._builtin_functions
  original_builtins,        \* self._original_builtins
  wrapped_builtins,         \* self._wrapped_builtins
  globalSlot,               \* the hook sys.gettrace() returns
  binding,                  \* module attribute of each built-in function
  frames,                   \* live frames, outermost first
  inv,                      \* wrapper invocations in flight
  held,                     \* substitutes a caller keeps a reference to
  now,                      \* time.perf_counter()
  calls,                    \* frames and wrapper invocations started so far
  sessions,                 \* sessions started so far
  returned,                 \* keys of the map last returned to a caller
  expected,                 \* history: statistics of the completed traced calls
  hookAtEnable,             \* history: occupant of the slot at first enable
  noArgSession,             \* history: session started by enable() alone
  twice,                    \* history: enable([g]), enable([g]), disable()
  lastOp,                   \* history: the last operation and its argument
  lastEv                    \* history: what the last trace event did

tracerVars == <<enabled, traced_functions, decorated_functions, stats,
                call_stack, original_trace_function, builtin_functions,
                original_builtins, wrapped_builtins, globalSlot, binding>>
envVars == <<frames, inv, held, now, calls>>
histVars == <<sessions, returned, expected, hookAtEnable,
              noArgSession, twice, lastOp, lastEv>>
vars == <<tracerVars, envVars, histVars>>

\* ------------------------------------------------------------ FunctionStats
DefaultStats == [call_count |-> 0, total_time |-> 0, min_time |-> INF, max_time |-> 0]

avg_time(s) == IF s.call_count > 0 THEN s.total_time \div s.call_count ELSE 0

\* a slip: min_time is not updated
RecordSampleKeepsMin(st, func, duration) ==
  LET old == IF func \in DOMAIN st THEN st[func] ELSE DefaultStats
      new == [call_count |-> old.call_count + 1,
              total_time |-> old.total_time + duration,
              min_time |-> old.min_time,
              max_time |-> Max(old.max_time, duration)]
  IN [x \in DOMAIN st \cup {func} |-> IF x = func THEN new ELSE st[x]]

\* stats = self._stats[func] (defaultdict: creates the entry) and the four
\* updates that follow it
RecordSample(st, func, duration) ==
  LET old == IF func \in DOMAIN st THEN st[func] ELSE DefaultStats
      new == [call_count |-> old.call_count + 1,
              total_time |-> old.total_time + duration,
              min_time |-> Min(old.min_time, duration),
              max_time |-> Max(old.max_time, duration)]
  IN [x \in DOMAIN st \cup {func} |-> IF x = func THEN new ELSE st[x]]

\* _is_builtin_function: not hasattr(func, '__code__') and callable(func)
is_builtin_function(func) == func \in Opq

\* history record of one trace event or wrapper invocation
NoEv == [kind |-> "none", code |-> "none", enabledAt |-> FALSE, prev |-> "none",
         toTracer |-> FALSE, nfwd |-> 0, prevGot |-> FALSE, aloneGets |-> FALSE,
         eligible |-> FALSE, recursive |-> FALSE, recorded |-> FALSE,
         dur |-> 0, maxInner |-> 0, ret |-> "none", hookRet |-> "none",
         raised |-> FALSE, callee |-> "none"]

Emp == [x \in {} |-> 0]

Init ==
  /\ enabled = FALSE
  /\ traced_functions = {}
  /\ decorated_functions = {}
  /\ stats = Emp
  /\ call_stack = Emp
  /\ original_trace_function = "none"
  /\ builtin_functions = {}
  /\ original_builtins = Emp
  /\ wrapped_builtins = Emp
  /\ globalSlot \in {"none", "G"}
  /\ binding = [g \in Opq |-> OrigC(g)]
  /\ frames = <<>>
  /\ inv = <<>>
  /\ held = {}
  /\ now = 0
  /\ calls = 0
  /\ sessions = 0
  /\ returned = {}
  /\ expected = Emp
  /\ hookAtEnable = "none"
  /\ noArgSession = FALSE
  /\ twice = "no"
  /\ lastOp = [op |-> "init", arg |-> NoArg]
  /\ lastEv = NoEv

\* ------------------------------------------------- opaque-function wrapper
\* _setup_builtin_tracing.  `last` is the value the loop variable func has
\* when the loop ends: wrapped_function reads func from the enclosing
\* scope when it runs, so every wrapper built by one call reads that value.
\* functools.wraps(func), the two dict stores and setattr use func eagerly.
setup_builtin_tracing(bf, ob, wb, bind, last) ==
  LET fresh == {g \in bf : g \notin DOMAIN wb}
  IN [ob |-> [g \in DOMAIN ob \cup fresh |->
                IF g \in fresh THEN OrigC(g) ELSE ob[g]],
      wb |-> [g \in DOMAIN wb \cup fresh |->
                IF g \in fresh THEN WrapC(g, last) ELSE wb[g]],
      bind |-> [g \in Opq |->
                IF g \in fresh /\ Resolvable(g) THEN WrapC(g, last) ELSE bind[g]]]

\* the values `last` can take: the set is iterated in an arbitrary order
LastOf(bf) == IF bf = {} THEN {"none"} ELSE bf

\* a slip: the containers are cleared but no original is written back
restore_without_rebinding(bf, ob, wb, bind) ==
  [bf |-> {}, ob |-> Emp, wb |-> Emp, bind |-> bind]

\* a slip: _wrapped_builtins is not cleared
restore_keeps_wrapped(bf, ob, wb, bind) ==
  [bf |-> {}, ob |-> Emp, wb |-> wb,
   bind |-> [g \in Opq |->
               IF g \in DOMAIN ob /\ Resolvable(g) THEN ob[g] ELSE bind[g]]]

\* _restore_builtin_functions: every recorded original is written back to
\* its module attribute, then the three containers are cleared
restore_builtin_functions(bf, ob, wb, bind) ==
  [bf |-> {}, ob |-> Emp, wb |-> Emp,
   bind |-> [g \in Opq |->
               IF g \in DOMAIN ob /\ Resolvable(g) THEN ob[g] ELSE bind[g]]]

\* ------------------------------------------------------------ controller
\* a slip: the session set is not reset to the decorated functions
update_functions_accumulates(functions, last) ==
  LET re == restore_builtin_functions(builtin_functions, original_builtins,
                                      wrapped_builtins, binding)
      bf == {x \in functions : is_builtin_function(x)}
      su == setup_builtin_tracing(bf, re.ob, re.wb, re.bind, last)
  IN [traced |-> traced_functions \cup {x \in functions : ~is_builtin_function(x)},
      bf |-> bf, ob |-> su.ob, wb |-> su.wb, bind |-> su.bind]

\* the body of update_functions after the enabled check, with the loop
\* variable of _setup_builtin_tracing ending on `last`
update_functions_effect(functions, last) ==
  LET re == restore_builtin_functions(builtin_functions, original_builtins,
                                      wrapped_builtins, binding)
      bf == {x \in functions : is_builtin_function(x)}
      su == setup_builtin_tracing(bf, re.ob, re.wb, re.bind, last)
  IN [traced |-> decorated_functions \cup {x \in functions : ~is_builtin_function(x)},
      bf |-> bf, ob |-> su.ob, wb |-> su.wb, bind |-> su.bind]

ApplyUpdate(functions, last) ==
  LET e == update_functions_effect(functions, last)
  IN /\ traced_functions' = e.traced
     /\ builtin_functions' = e.bf
     /\ original_builtins' = e.ob
     /\ wrapped_builtins' = e.wb
     /\ binding' = e.bind
     /\ UNCHANGED <<enabled, decorated_functions, stats, call_stack,
                    original_trace_function, globalSlot>>

\* FunctionTracer.trace: the decorator registers the function
Trace(func) ==
  /\ func \in Decorated
  /\ func \notin decorated_functions
  /\ decorated_functions' = decorated_functions \cup {func}
  /\ lastOp' = [op |-> "trace", arg |-> NoArg]
  /\ UNCHANGED <<enabled, traced_functions, stats, call_stack,
                 original_trace_function, builtin_functions, original_builtins,
                 wrapped_builtins, globalSlot, binding>>
  /\ UNCHANGED envVars
  /\ UNCHANGED <<sessions, returned, expected, hookAtEnable,
                 noArgSession, twice>>
  /\ lastEv' = NoEv

Truthy(functions) == functions # NoArg /\ functions # {}

\* enable(functions) while not enabled
EnableFirst(functions) ==
  /\ ~enabled
  /\ sessions < MaxSessions
  /\ LET fs == IF Truthy(functions) THEN functions ELSE {}
         bf == builtin_functions \cup {x \in fs : is_builtin_function(x)}
     IN \E last \in LastOf(bf) :
          LET su == setup_builtin_tracing(bf, original_builtins,
                                          wrapped_builtins, binding, last)
          IN /\ traced_functions' =
                  decorated_functions \cup {x \in fs : ~is_builtin_function(x)}
             /\ builtin_functions' = bf
             /\ original_trace_function' = globalSlot
             /\ globalSlot' = "T"
             /\ original_builtins' = su.ob
             /\ wrapped_builtins' = su.wb
             /\ binding' = su.bind
             /\ enabled' = TRUE
  /\ sessions' = sessions + 1
  /\ hookAtEnable' = globalSlot
  /\ noArgSession' = ~Truthy(functions)
  /\ twice' = IF functions = {"g"} THEN "once" ELSE "no"
  /\ lastOp' = [op |-> "enable", arg |-> functions]
  /\ UNCHANGED <<decorated_functions, stats, call_stack>>
  /\ UNCHANGED envVars
  /\ UNCHANGED <<returned, expected>>
  /\ lastEv' = NoEv

\* a slip: the early return is missing, so the hook is captured and
\* installed again
EnableAgainReinstalls(functions) ==
  /\ enabled
  /\ IF Truthy(functions)
       THEN \E last \in LastOf({x \in functions : is_builtin_function(x)}) :
              LET e == update_functions_effect(functions, last)
              IN /\ traced_functions' = e.traced
                 /\ builtin_functions' = e.bf
                 /\ original_builtins' = e.ob
                 /\ wrapped_builtins' = e.wb
                 /\ binding' = e.bind
       ELSE UNCHANGED <<traced_functions, builtin_functions, original_builtins,
                        wrapped_builtins, binding>>
  /\ original_trace_function' = globalSlot
  /\ globalSlot' = "T"
  /\ UNCHANGED <<enabled, decorated_functions, stats, call_stack>>
  /\ noArgSession' = (noArgSession /\ ~Truthy(functions))
  /\ twice' = IF twice = "once" /\ functions = {"g"} THEN "twice" ELSE "no"
  /\ lastOp' = [op |-> "enable_again", arg |-> functions]
  /\ UNCHANGED envVars
  /\ UNCHANGED <<sessions, returned, expected, hookAtEnable>>
  /\ lastEv' = NoEv

\* enable(functions) while already enabled
EnableAgain(functions) ==
  /\ enabled
  /\ IF Truthy(functions)
       THEN \E last \in LastOf({x \in functions : is_builtin_function(x)}) :
              ApplyUpdate(functions, last)
       ELSE UNCHANGED tracerVars
  /\ noArgSession' = (noArgSession /\ ~Truthy(functions))
  /\ twice' = IF twice = "once" /\ functions = {"g"} THEN "twice" ELSE "no"
  /\ lastOp' = [op |-> "enable_again", arg |-> functions]
  /\ UNCHANGED envVars
  /\ UNCHANGED <<sessions, returned, expected, hookAtEnable>>
  /\ lastEv' = NoEv

Enable(functions) == EnableFirst(functions) \/ EnableAgain(functions)

\* history: the built-ins whose module attribute holds a wrapper
Rebound == {g \in Opq : binding[g].kind = "wrap"}

\* history: a call in flight at disable is not a completed call of the session
Discard(fr) == [i \in DOMAIN fr |-> [fr[i] EXCEPT !.eligible = FALSE]]

\* a slip: the in-flight table is not cleared
DisableKeepsContexts ==
  /\ IF ~enabled
       THEN /\ UNCHANGED tracerVars
            /\ UNCHANGED <<frames, inv>>
            /\ lastOp' = [op |-> "disable_noop", arg |-> NoArg]
            /\ UNCHANGED twice
       ELSE /\ globalSlot' = original_trace_function
            /\ LET re == restore_builtin_functions(builtin_functions,
                            original_builtins, wrapped_builtins, binding)
               IN /\ binding' = re.bind
                  /\ builtin_functions' = re.bf
                  /\ original_builtins' = re.ob
                  /\ wrapped_builtins' = re.wb
            /\ enabled' = FALSE
            /\ frames' = Discard(frames)
            /\ UNCHANGED <<traced_functions, decorated_functions, stats,
                           call_stack, original_trace_function, inv>>
            /\ lastOp' = [op |-> "disable", arg |-> Rebound]
            /\ twice' = IF twice = "twice" THEN "restored" ELSE "no"
  /\ returned' = DOMAIN stats
  /\ UNCHANGED <<held, now, calls>>
  /\ UNCHANGED <<sessions, expected, hookAtEnable, noArgSession>>
  /\ lastEv' = NoEv

\* a slip: the previous hook is not put back in the global slot
DisableLeavesSlot ==
  /\ IF ~enabled
       THEN /\ UNCHANGED tracerVars
            /\ UNCHANGED <<frames, inv>>
            /\ lastOp' = [op |-> "disable_noop", arg |-> NoArg]
            /\ UNCHANGED twice
       ELSE /\ LET re == restore_builtin_functions(builtin_functions,
                            original_builtins, wrapped_builtins, binding)
               IN /\ binding' = re.bind
                  /\ builtin_functions' = re.bf
                  /\ original_builtins' = re.ob
                  /\ wrapped_builtins' = re.wb
            /\ enabled' = FALSE
            /\ call_stack' = Emp
            /\ frames' = Discard(frames)
            /\ UNCHANGED <<traced_functions, decorated_functions, stats,
                           globalSlot, original_trace_function, inv>>
            /\ lastOp' = [op |-> "disable", arg |-> Rebound]
            /\ twice' = IF twice = "twice" THEN "restored" ELSE "no"
  /\ returned' = DOMAIN stats
  /\ UNCHANGED <<held, now, calls>>
  /\ UNCHANGED <<sessions, expected, hookAtEnable, noArgSession>>
  /\ lastEv' = NoEv

\* disable()
Disable ==
  /\ IF ~enabled
       THEN /\ UNCHANGED tracerVars
            /\ UNCHANGED <<frames, inv>>
            /\ lastOp' = [op |-> "disable_noop", arg |-> NoArg]
            /\ UNCHANGED twice
       ELSE /\ globalSlot' = original_trace_function
            /\ LET re == restore_builtin_functions(builtin_functions,
                            original_builtins, wrapped_builtins, binding)
               IN /\ binding' = re.bind
                  /\ builtin_functions' = re.bf
                  /\ original_builtins' = re.ob
                  /\ wrapped_builtins' = re.wb
            /\ enabled' = FALSE
            /\ call_stack' = Emp
            /\ frames' = Discard(frames)
            /\ UNCHANGED <<traced_functions, decorated_functions, stats,
                           original_trace_function, inv>>
            /\ lastOp' = [op |-> "disable", arg |-> Rebound]
            /\ twice' = IF twice = "twice" THEN "restored" ELSE "no"
  /\ returned' = DOMAIN stats
  /\ UNCHANGED <<held, now, calls>>
  /\ UNCHANGED <<sessions, expected, hookAtEnable, noArgSession>>
  /\ lastEv' = NoEv

\* a slip: the enabled check is missing
UpdateFunctionsUnguarded(functions) ==
  /\ \E last \in LastOf({x \in functions : is_builtin_function(x)}) :
       ApplyUpdate(functions, last)
  /\ lastOp' = [op |-> "update", arg |-> functions]
  /\ noArgSession' = FALSE
  /\ twice' = "no"
  /\ UNCHANGED envVars
  /\ UNCHANGED <<sessions, returned, expected, hookAtEnable>>
  /\ lastEv' = NoEv

\* update_functions(functions)
UpdateFunctions(functions) ==
  /\ IF ~enabled
       THEN /\ UNCHANGED tracerVars
            /\ lastOp' = [op |-> "update_error", arg |-> NoArg]
            /\ UNCHANGED <<noArgSession, twice>>
       ELSE /\ \E last \in LastOf({x \in functions : is_builtin_function(x)}) :
                 ApplyUpdate(functions, last)
            /\ lastOp' = [op |-> "update", arg |-> functions]
            /\ noArgSession' = FALSE
            /\ twice' = "no"
  /\ UNCHANGED envVars
  /\ UNCHANGED <<sessions, returned, expected, hookAtEnable>>
  /\ lastEv' = NoEv

\* get_results()
GetResults ==
  /\ returned' = DOMAIN stats
  /\ lastOp' = [op |-> "get_results", arg |-> NoArg]
  /\ UNCHANGED tracerVars
  /\ UNCHANGED envVars
  /\ UNCHANGED <<sessions, expected, hookAtEnable, noArgSession, twice>>
  /\ lastEv' = NoEv

\* ------------------------------------------------------------- trace hook
\* the bookkeeping of _trace_function (the try block) for the frame with
\* id(frame) = id and frame.f_code = code: the new _call_stack and _stats,
\* the matched function (func, "none" for None) and the recorded sample
bookkeeping(id, code, event) ==
  LET plain == [cs |-> call_stack, st |-> stats, func |-> "none",
                recorded |-> FALSE, dur |-> 0]
  IN IF event = "call" THEN
       IF code \in traced_functions
         THEN [plain EXCEPT
                 !.cs = [x \in DOMAIN call_stack \cup {id} |->
                           IF x = id THEN [func |-> code, start |-> now]
                                     ELSE call_stack[x]],
                 !.func = code]
         ELSE plain
     ELSE IF event = "return" THEN
       IF id \in DOMAIN call_stack
         THEN LET duration == now - call_stack[id].start
              IN [plain EXCEPT
                    !.cs = [x \in DOMAIN call_stack \ {id} |-> call_stack[x]],
                    !.st = RecordSample(stats, call_stack[id].func, duration),
                    !.func = call_stack[id].func,
                    !.recorded = TRUE,
                    !.dur = duration]
         ELSE plain
     ELSE plain

\* a slip: the event is handed to the previous hook only when no traced
\* function matched
trace_function_forward_unmatched(id, code, event, r) ==
  LET has == original_trace_function # "none"
      b == bookkeeping(id, code, event)
  IN IF ~enabled
       THEN [cs |-> call_stack, st |-> stats,
             ret |-> IF has /\ r # "raise" THEN r ELSE "none",
             nfwd |-> IF has THEN 1 ELSE 0, recorded |-> FALSE, dur |-> 0,
             raised |-> (has /\ r = "raise")]
       ELSE [cs |-> b.cs, st |-> b.st,
             ret |-> IF b.func # "none" THEN "T"
                     ELSE IF has /\ r # "raise" THEN r ELSE "none",
             nfwd |-> IF has /\ b.func = "none" THEN 1 ELSE 0,
             recorded |-> b.recorded, dur |-> b.dur, raised |-> FALSE]

\* a slip: while disabled the event is dropped instead of delegated
trace_function_disabled_silent(id, code, event, r) ==
  LET has == original_trace_function # "none"
      b == bookkeeping(id, code, event)
  IN IF ~enabled
       THEN [cs |-> call_stack, st |-> stats, ret |-> "none",
             nfwd |-> 0, recorded |-> FALSE, dur |-> 0, raised |-> FALSE]
       ELSE [cs |-> b.cs, st |-> b.st,
             ret |-> IF b.func # "none" THEN "T"
                     ELSE IF has /\ r # "raise" THEN r ELSE "none",
             nfwd |-> IF has THEN 1 ELSE 0,
             recorded |-> b.recorded, dur |-> b.dur, raised |-> FALSE]

\* a slip: while enabled the hook always asks for per-frame tracing
trace_function_always_self(id, code, event, r) ==
  LET has == original_trace_function # "none"
      b == bookkeeping(id, code, event)
  IN IF ~enabled
       THEN [cs |-> call_stack, st |-> stats,
             ret |-> IF has /\ r # "raise" THEN r ELSE "none",
             nfwd |-> IF has THEN 1 ELSE 0, recorded |-> FALSE, dur |-> 0,
             raised |-> (has /\ r = "raise")]
       ELSE [cs |-> b.cs, st |-> b.st, ret |-> "T",
             nfwd |-> IF has THEN 1 ELSE 0,
             recorded |-> b.recorded, dur |-> b.dur, raised |-> FALSE]

\* _trace_function(frame, event, arg); r is what the previous hook does if
\* it is called: the value it returns, or "raise".  Result: the new
\* _call_stack and _stats, the value returned to the interpreter ("T" is
\* self._trace_function), how often the previous hook was called, the
\* recorded sample, and whether an exception leaves _trace_function.  The
\* call of the previous hook is inside try/except in the enabled branch
\* (lines 285-288) and bare in the disabled branch (line 247).
trace_function(id, code, event, r) ==
  LET has == original_trace_function # "none"
      pycharm_next == IF has /\ r # "raise" THEN r ELSE "none"
      b == bookkeeping(id, code, event)
  IN IF ~enabled
       THEN [cs |-> call_stack, st |-> stats, ret |-> pycharm_next,
             nfwd |-> IF has THEN 1 ELSE 0, recorded |-> FALSE, dur |-> 0,
             raised |-> (has /\ r = "raise")]
       ELSE [cs |-> b.cs, st |-> b.st,
             ret |-> IF b.func # "none" THEN "T" ELSE pycharm_next,
             nfwd |-> IF has THEN 1 ELSE 0,
             recorded |-> b.recorded, dur |-> b.dur, raised |-> FALSE]

\* the interpreter delivers `event` of a frame to `hook` (the global slot for
\* 'call', the frame's f_trace afterwards); the previous hook "G" and a
\* local observer "L" that it returned do what r says
Deliver(hook, id, code, event, r) ==
  IF hook = "T" THEN trace_function(id, code, event, r)
  ELSE [cs |-> call_stack, st |-> stats,
        ret |-> IF hook = "G" /\ r # "raise" THEN r ELSE "none",
        nfwd |-> 0, recorded |-> FALSE, dur |-> 0,
        raised |-> (hook \in {"G", "L"} /\ r = "raise")]

\* the interpreter dispatches trace events only while the global slot is
\* set: after sys.settrace(None) a frame's f_trace receives nothing
Target(h) == IF globalSlot = "none" THEN "none" ELSE h

\* an exception that leaves a trace function makes the interpreter clear
\* the global slot (and the frame's f_trace) before it raises in the frame
SlotAfter(out) == IF out.raised THEN "none" ELSE globalSlot

\* history: the previous hook is installed, in the slot or behind the tracer
HookInstalled ==
  \/ globalSlot = "G"
  \/ globalSlot = "T" /\ original_trace_function = "G"

\* history: the previous hook, or a local observer it returned, received
\* the event that was delivered to `hook` with the result `out`
PrevGot(hook, out) == hook \in {"G", "L"} \/ (hook = "T" /\ out.nfwd > 0)

Top == frames[Len(frames)]

\* history: once a trace function has failed, the previous hook running
\* alone would receive nothing more for the live frames either
AfterOutcome(out, fr) ==
  IF out.raised THEN [i \in DOMAIN fr |-> [fr[i] EXCEPT !.r0 = "none"]] ELSE fr

\* a function is called: a new frame, and its 'call' event
FrameCall(id, code, r) ==
  /\ calls < MaxCalls
  /\ Len(frames) < MaxDepth
  /\ id = Len(frames) + 1
  /\ LET out == Deliver(globalSlot, id, code, "call", r)
         rec == \E i \in DOMAIN frames : frames[i].code = code
         elig == enabled /\ code \in traced_functions
         fr == [id |-> id, code |-> code, f_trace |-> out.ret, start |-> now,
                eligible |-> elig,
                r0 |-> IF HookInstalled /\ r # "raise" THEN r ELSE "none",
                recursive |-> rec, maxInner |-> 0]
     IN /\ call_stack' = out.cs
        /\ stats' = out.st
        /\ frames' = AfterOutcome(out,
                        Append([i \in DOMAIN frames |->
                                  IF frames[i].code = code
                                    THEN [frames[i] EXCEPT !.recursive = TRUE]
                                    ELSE frames[i]], fr))
        /\ globalSlot' = SlotAfter(out)
        /\ lastEv' = [NoEv EXCEPT !.kind = "call", !.code = code,
                        !.enabledAt = enabled,
                        !.prev = original_trace_function,
                        !.toTracer = (globalSlot = "T"),
                        !.nfwd = out.nfwd,
                        !.prevGot = PrevGot(globalSlot, out),
                        !.aloneGets = HookInstalled,
                        !.eligible = elig,
                        !.recursive = rec,
                        !.ret = out.ret,
                        !.hookRet = IF out.nfwd > 0 THEN r ELSE "none",
                        !.raised = out.raised]
  /\ calls' = calls + 1
  /\ lastOp' = [op |-> "event", arg |-> NoArg]
  /\ UNCHANGED <<enabled, traced_functions, decorated_functions,
                 original_trace_function, builtin_functions, original_builtins,
                 wrapped_builtins, binding>>
  /\ UNCHANGED <<inv, held, now>>
  /\ UNCHANGED <<sessions, returned, expected, hookAtEnable, noArgSession, twice>>

\* a 'line' (or 'exception', ...) event of the running frame
FrameLine(r) ==
  /\ frames # <<>>
  /\ LET top == Top
         hook == Target(top.f_trace)
         out == Deliver(hook, top.id, top.code, "line", r)
     IN /\ call_stack' = out.cs
        /\ stats' = out.st
        /\ frames' = AfterOutcome(out,
                        [frames EXCEPT ![Len(frames)].f_trace =
                           IF out.raised THEN "none"
                           ELSE IF out.ret # "none" THEN out.ret ELSE top.f_trace])
        /\ globalSlot' = SlotAfter(out)
        /\ lastEv' = [NoEv EXCEPT !.kind = "line", !.code = top.code,
                        !.enabledAt = enabled,
                        !.prev = original_trace_function,
                        !.toTracer = (hook = "T"),
                        !.nfwd = out.nfwd,
                        !.prevGot = PrevGot(hook, out),
                        !.aloneGets = (top.r0 = "L"),
                        !.eligible = top.eligible,
                        !.recursive = top.recursive,
                        !.ret = out.ret,
                        !.hookRet = IF out.nfwd > 0 THEN r ELSE "none",
                        !.raised = out.raised]
  /\ lastOp' = [op |-> "event", arg |-> NoArg]
  /\ UNCHANGED <<enabled, traced_functions, decorated_functions,
                 original_trace_function, builtin_functions, original_builtins,
                 wrapped_builtins, binding>>
  /\ UNCHANGED <<inv, held, now, calls>>
  /\ UNCHANGED <<sessions, returned, expected, hookAtEnable, noArgSession, twice>>

\* the running frame returns (or unwinds): its 'return' event, then it ends
FrameReturn(r) ==
  /\ frames # <<>>
  /\ LET top == Top
         hook == Target(top.f_trace)
         out == Deliver(hook, top.id, top.code, "return", r)
         rest == SubSeq(frames, 1, Len(frames) - 1)
     IN /\ call_stack' = out.cs
        /\ stats' = out.st
        /\ frames' = AfterOutcome(out,
                        [i \in DOMAIN rest |->
                           IF out.recorded /\ rest[i].code = top.code
                             THEN [rest[i] EXCEPT !.maxInner = Max(@, out.dur)]
                             ELSE rest[i]])
        /\ expected' = IF top.eligible
                         THEN RecordSample(expected, top.code, now - top.start)
                         ELSE expected
        /\ globalSlot' = SlotAfter(out)
        /\ lastEv' = [NoEv EXCEPT !.kind = "return", !.code = top.code,
                        !.enabledAt = enabled,
                        !.prev = original_trace_function,
                        !.toTracer = (hook = "T"),
                        !.nfwd = out.nfwd,
                        !.prevGot = PrevGot(hook, out),
                        !.aloneGets = (top.r0 = "L"),
                        !.eligible = top.eligible,
                        !.recursive = top.recursive,
                        !.recorded = out.recorded,
                        !.dur = out.dur,
                        !.maxInner = top.maxInner,
                        !.ret = out.ret,
                        !.hookRet = IF out.nfwd > 0 THEN r ELSE "none",
                        !.raised = out.raised]
  /\ lastOp' = [op |-> "event", arg |-> NoArg]
  /\ UNCHANGED <<enabled, traced_functions, decorated_functions,
                 original_trace_function, builtin_functions, original_builtins,
                 wrapped_builtins, binding>>
  /\ UNCHANGED <<inv, held, now, calls>>
  /\ UNCHANGED <<sessions, returned, hookAtEnable, noArgSession, twice>>

\* ------------------------------------------------------- wrapped_function
\* a caller looks up the built-in g in its module and calls what it finds;
\* a wrapper runs up to the call of func (lines 192-196)
BeginWrapped(g) ==
  /\ calls < MaxCalls
  /\ Len(inv) < MaxInv
  /\ binding[g].kind = "wrap"
  /\ inv' = Append(inv, [w |-> binding[g], start |-> now, tracked |-> enabled])
  /\ calls' = calls + 1
  /\ lastOp' = [op |-> "wrapped_call", arg |-> NoArg]
  /\ UNCHANGED tracerVars
  /\ UNCHANGED <<frames, held, now>>
  /\ UNCHANGED <<sessions, returned, expected, hookAtEnable,
                 noArgSession, twice>>
  /\ lastEv' = NoEv

\* a caller keeps what it finds in the module attribute of g (for example
\* by `from module import g`) while the attribute holds a substitute
Hold(g) ==
  /\ held = {}
  /\ binding[g].kind = "wrap"
  /\ held' = {binding[g]}
  /\ lastOp' = [op |-> "hold", arg |-> NoArg]
  /\ UNCHANGED tracerVars
  /\ UNCHANGED <<frames, inv, now, calls>>
  /\ UNCHANGED <<sessions, returned, expected, hookAtEnable,
                 noArgSession, twice>>
  /\ lastEv' = NoEv

\* the caller calls the substitute it kept
BeginHeld ==
  /\ calls < MaxCalls
  /\ Len(inv) < MaxInv
  /\ \E w \in held :
       inv' = Append(inv, [w |-> w, start |-> now, tracked |-> enabled])
  /\ calls' = calls + 1
  /\ lastOp' = [op |-> "held_call", arg |-> NoArg]
  /\ UNCHANGED tracerVars
  /\ UNCHANGED <<frames, held, now>>
  /\ UNCHANGED <<sessions, returned, expected, hookAtEnable,
                 noArgSession, twice>>
  /\ lastEv' = NoEv

\* func returns ("ok") or raises ("raise"), and the wrapper runs to its end
\* (lines 196-205); func is the value the loop variable ended on
EndWrapped(i, outcome) ==
  /\ i \in DOMAIN inv
  /\ LET c == inv[i]
         duration == now - c.start
         rec == c.tracked /\ outcome = "ok"
     IN /\ stats' = IF rec THEN RecordSample(stats, c.w.target, duration)
                           ELSE stats
        /\ lastEv' = [NoEv EXCEPT !.kind = "wrapped_" \o outcome, !.code = c.w.f,
                        !.enabledAt = enabled,
                        !.eligible = c.tracked,
                        !.recorded = rec,
                        !.dur = duration,
                        !.callee = c.w.target]
  /\ inv' = [j \in 1..(Len(inv) - 1) |-> IF j < i THEN inv[j] ELSE inv[j + 1]]
  /\ lastOp' = [op |-> "wrapped_end", arg |-> NoArg]
  /\ UNCHANGED <<enabled, traced_functions, decorated_functions, call_stack,
                 original_trace_function, builtin_functions, original_builtins,
                 wrapped_builtins, globalSlot, binding>>
  /\ UNCHANGED <<frames, held, now, calls>>
  /\ UNCHANGED <<sessions, returned, expected, hookAtEnable, noArgSession, twice>>

\* ------------------------------------------ wrapped_function, by statement
\* The wrapper holds no lock, so when several threads run it the interpreter
\* can switch between them between its statements, and inside
\* self._stats[func] when the entry is missing: defaultdict runs the
\* FunctionStats factory (Python code) before it stores the new object.
\* A thread looks up g in its module and calls the substitute (lines 192-195)
ThreadCall(g) ==
  /\ calls < MaxCalls
  /\ Len(inv) < MaxThreads
  /\ binding[g].kind = "wrap"
  /\ inv' = Append(inv, [w |-> binding[g], start |-> now, tracked |-> enabled,
                         pc |-> "func", dur |-> 0, live |-> FALSE])
  /\ calls' = calls + 1
  /\ lastOp' = [op |-> "thread_call", arg |-> NoArg]
  /\ UNCHANGED tracerVars
  /\ UNCHANGED <<frames, held, now>>
  /\ UNCHANGED <<sessions, returned, expected, hookAtEnable,
                 noArgSession, twice>>
  /\ lastEv' = NoEv

Without(i) == [j \in 1..(Len(inv) - 1) |-> IF j < i THEN inv[j] ELSE inv[j + 1]]

\* func returns: line 193 ends an untracked invocation, lines 196-197 take
\* the duration of a tracked one
ThreadReturn(i) ==
  /\ i \in DOMAIN inv
  /\ inv[i].pc = "func"
  /\ IF inv[i].tracked
       THEN /\ inv' = [inv EXCEPT ![i].pc = "fetch", ![i].dur = now - inv[i].start]
            /\ expected' = RecordSample(expected, inv[i].w.target, now - inv[i].start)
       ELSE /\ inv' = Without(i)
            /\ UNCHANGED expected
  /\ lastOp' = [op |-> "thread_return", arg |-> NoArg]
  /\ UNCHANGED tracerVars
  /\ UNCHANGED <<frames, held, now, calls>>
  /\ UNCHANGED <<sessions, returned, hookAtEnable, noArgSession, twice>>
  /\ lastEv' = NoEv

\* line 199, the lookup: an existing entry is the object the thread works
\* on; for a missing key the factory starts
ThreadFetch(i) ==
  /\ i \in DOMAIN inv
  /\ inv[i].pc = "fetch"
  /\ inv' = IF inv[i].w.target \in DOMAIN stats
              THEN [inv EXCEPT ![i].pc = "update", ![i].live = TRUE]
              ELSE [inv EXCEPT ![i].pc = "bind"]
  /\ lastOp' = [op |-> "thread_fetch", arg |-> NoArg]
  /\ UNCHANGED tracerVars
  /\ UNCHANGED <<frames, held, now, calls>>
  /\ UNCHANGED <<sessions, returned, expected, hookAtEnable, noArgSession, twice>>
  /\ lastEv' = NoEv

\* line 199, the end of the lookup of a missing key: the new object is
\* stored under func, in place of whatever another thread stored meanwhile;
\* a thread that works on the replaced object no longer updates the table
ThreadBind(i) ==
  /\ i \in DOMAIN inv
  /\ inv[i].pc = "bind"
  /\ LET func == inv[i].w.target
     IN /\ stats' = [x \in DOMAIN stats \cup {func} |->
                       IF x = func THEN DefaultStats ELSE stats[x]]
        /\ inv' = [j \in DOMAIN inv |->
                     IF j = i THEN [inv[j] EXCEPT !.pc = "update", !.live = TRUE]
                     ELSE IF inv[j].w.target = func
                       THEN [inv[j] EXCEPT !.live = FALSE]
                     ELSE inv[j]]
  /\ lastOp' = [op |-> "thread_bind", arg |-> NoArg]
  /\ UNCHANGED <<enabled, traced_functions, decorated_functions, call_stack,
                 original_trace_function, builtin_functions, original_builtins,
                 wrapped_builtins, globalSlot, binding>>
  /\ UNCHANGED <<frames, held, now, calls>>
  /\ UNCHANGED <<sessions, returned, expected, hookAtEnable, noArgSession, twice>>
  /\ lastEv' = NoEv

\* lines 200-205: the four updates of the object the thread works on
ThreadUpdate(i) ==
  /\ i \in DOMAIN inv
  /\ inv[i].pc = "update"
  /\ stats' = IF inv[i].live /\ inv[i].w.target \in DOMAIN stats
                THEN RecordSample(stats, inv[i].w.target, inv[i].dur)
                ELSE stats
  /\ inv' = Without(i)
  /\ lastOp' = [op |-> "thread_update", arg |-> NoArg]
  /\ UNCHANGED <<enabled, traced_functions, decorated_functions, call_stack,
                 original_trace_function, builtin_functions, original_builtins,
                 wrapped_builtins, globalSlot, binding>>
  /\ UNCHANGED <<frames, held, now, calls>>
  /\ UNCHANGED <<sessions, returned, expected, hookAtEnable, noArgSession, twice>>
  /\ lastEv' = NoEv

\* time.perf_counter() advances
Tick ==
  /\ now < MaxTime
  /\ now' = now + 1
  /\ UNCHANGED tracerVars
  /\ UNCHANGED <<frames, inv, held, calls>>
  /\ lastOp' = [op |-> "tick", arg |-> NoArg]
  /\ lastEv' = NoEv
  /\ UNCHANGED <<sessions, returned, expected, hookAtEnable, noArgSession, twice>>

\* the controller's operations, called with the lists of L
Controller(L) ==
  \/ \E func \in Decorated : Trace(func)
  \/ \E functions \in L \cup {NoArg} : EnableFirst(functions)
  \/ \E functions \in L \cup {NoArg} : EnableAgain(functions)
  \/ Disable
  \/ \E functions \in L : UpdateFunctions(functions)
  \/ GetResults

FrameEvents ==
  \/ \E id \in FrameIds, code \in Insp, r \in HookResults : FrameCall(id, code, r)
  \/ \E r \in HookResults : FrameLine(r)
  \/ \E r \in HookResults : FrameReturn(r)

\* the same events with a previous hook that can fail
FrameEventsFailing ==
  \/ \E id \in FrameIds, code \in Insp, r \in HookOutcomes : FrameCall(id, code, r)
  \/ \E r \in HookOutcomes : FrameLine(r)
  \/ \E r \in HookOutcomes : FrameReturn(r)

WrappedCalls ==
  \/ \E g \in Opq : BeginWrapped(g)
  \/ \E g \in Opq : Hold(g)
  \/ BeginHeld
  \/ \E i \in 1..MaxInv, outcome \in {"ok", "raise"} : EndWrapped(i, outcome)

ThreadSteps ==
  \/ \E g \in Opq : ThreadCall(g)
  \/ \E i \in 1..MaxThreads : ThreadReturn(i)
  \/ \E i \in 1..MaxThreads : ThreadFetch(i)
  \/ \E i \in 1..MaxThreads : ThreadBind(i)
  \/ \E i \in 1..MaxThreads : ThreadUpdate(i)

\* a program that traces Python functions and calls them
Next == Controller(TraceLists) \/ FrameEvents \/ Tick

Spec == Init /\ [][Next]_vars

\* a program that traces built-in functions and calls them
NextWrapped == Controller(WrapLists) \/ WrappedCalls \/ Tick

SpecWrapped == Init /\ [][NextWrapped]_vars

\* a program that passes every kind of list while calls are in flight; the
\* clock does not advance between its events
NextControl == Controller(FunctionLists) \/ FrameEvents

SpecControl == Init /\ [][NextControl]_vars

\* a program that traces Python functions under a previous hook that can
\* fail; the clock does not advance between its events
NextFailing == Controller(TraceLists) \/ FrameEventsFailing

SpecFailing == Init /\ [][NextFailing]_vars

\* a program whose threads call traced built-in functions
NextThreads == Controller(ThreadLists) \/ ThreadSteps \/ Tick

SpecThreads == Init /\ [][NextThreads]_vars

\* ================================================================ claims
\* dict(self._stats) in get_results and disable: a new dict whose values are
\* the FunctionStats objects of the table, so a value read through the
\* returned map is the table's object as it is when it is read
ReadReturned(func) == IF func \in returned THEN stats[func] ELSE DefaultStats

ExpectedOf(func) == IF func \in DOMAIN expected THEN expected[func] ELSE DefaultStats

TraceEventKinds == {"call", "line", "return"}

\* C1: in the map returned by disable, every inspectable function has
\* call_count = N, total_time = the sum, min_time = the smallest and
\* max_time = the largest duration of its N completed traced calls,
\* whatever hook was installed before and whatever it returns.
C1_DisableReturnsExactStats ==
  lastOp.op = "disable" =>
    \A func \in Insp :
      /\ ReadReturned(func).call_count = ExpectedOf(func).call_count
      /\ ReadReturned(func).total_time = ExpectedOf(func).total_time
      /\ ReadReturned(func).min_time = ExpectedOf(func).min_time
      /\ ReadReturned(func).max_time = ExpectedOf(func).max_time

\* C2: while the tracer is enabled, every event the previous hook would
\* have received running alone reaches it or a local observer it returned,
\* and the tracer forwards each event it receives to it exactly once.
C2_Chaining ==
  (lastEv.kind \in TraceEventKinds /\ lastEv.enabledAt) =>
    /\ lastEv.aloneGets => lastEv.prevGot
    /\ (lastEv.toTracer /\ lastEv.prev # "none") => lastEv.nfwd = 1

\* C2 witness: a line event of a matched frame reached the tracer and was
\* forwarded to the previous hook
C2_Witness ==
  /\ lastEv.kind = "line" /\ lastEv.enabledAt /\ lastEv.toTracer
  /\ lastEv.eligible /\ lastEv.aloneGets /\ lastEv.prevGot /\ lastEv.nfwd = 1

\* C3: disable() while enabled puts the hook of the first enable back in
\* the global slot, leaves every rebound binding holding its original,
\* empties the in-flight table, clears enabled and returns the statistics;
\* disable() while disabled changes nothing and returns the statistics.
C3_DisableRestores ==
  [][ /\ lastOp'.op \in {"disable", "disable_noop"} =>
           /\ (lastOp'.op = "disable") = enabled
           /\ returned' = DOMAIN stats
           /\ stats' = stats
      /\ lastOp'.op = "disable" =>
           /\ globalSlot' = hookAtEnable
           /\ \A g \in Rebound : binding'[g] = OrigC(g)
           /\ call_stack' = Emp
           /\ ~enabled'
      /\ lastOp'.op = "disable_noop" => UNCHANGED tracerVars
    ]_vars

\* C3 witness: disable() has run with a previous hook installed, bindings
\* rebound, statistics recorded and a matched call still in flight
C3_Witness ==
  /\ lastOp.op = "disable" /\ lastOp.arg # {}
  /\ globalSlot = "G"
  /\ stats # Emp
  /\ frames # <<>> /\ Top.f_trace = "T"

\* C4: update_functions while tracing is not enabled fails with
\* RuntimeError and changes nothing of the tracer's state.
C4_UpdateWhileDisabledFails ==
  [][ (lastOp'.op \in {"update", "update_error"} /\ ~enabled) =>
        (lastOp'.op = "update_error" /\ UNCHANGED tracerVars) ]_vars

\* C4 witness: the call failed in a state with statistics and traced functions
C4_Witness ==
  /\ lastOp.op = "update_error"
  /\ stats # Emp /\ traced_functions # {} /\ globalSlot = "G"

\* C5: after enable([g]) and a second enable([g]) the binding of g holds one
\* substitute whose target is the original g, and one disable() then leaves
\* the original in the binding and no wrapper bookkeeping.
C5_WrapIdempotent ==
  /\ twice = "twice" =>
       /\ binding["g"] = WrapC("g", "g")
       /\ wrapped_builtins = [x \in {"g"} |-> WrapC("g", "g")]
       /\ original_builtins = [x \in {"g"} |-> OrigC("g")]
       /\ builtin_functions = {"g"}
  /\ twice = "restored" =>
       /\ binding["g"] = OrigC("g")
       /\ wrapped_builtins = Emp
       /\ original_builtins = Emp
       /\ builtin_functions = {}

\* C5 witness: the three calls have run, and a call through the substitute
\* was recorded in between
C5_Witness == twice = "restored" /\ "g" \in DOMAIN stats

ReturningOps == {"disable", "disable_noop", "get_results"}

\* C6: the values read from a returned map are not changed by a later
\* recorded call, and returning the map leaves the table as it is.
C6_SnapshotCopy ==
  [][ /\ lastOp'.op \notin ReturningOps =>
           \A func \in returned : ReadReturned(func)' = ReadReturned(func)
      /\ lastOp'.op \in ReturningOps =>
           (stats' = stats /\ returned' = DOMAIN stats)
    ]_vars

CountOf(st, func) == IF func \in DOMAIN st THEN st[func].call_count ELSE 0
TotalOf(st, func) == IF func \in DOMAIN st THEN st[func].total_time ELSE 0

\* C7: when the wrapped function raises in an invocation made while tracing
\* is enabled, the duration up to the failure is still recorded: call_count
\* grows by one and total_time by that duration.
C7_FailureStillRecorded ==
  [][ (lastEv'.kind = "wrapped_raise" /\ lastEv'.eligible /\ lastEv'.enabledAt) =>
        /\ CountOf(stats', lastEv'.code) = CountOf(stats, lastEv'.code) + 1
        /\ TotalOf(stats', lastEv'.code) = TotalOf(stats, lastEv'.code) + lastEv'.dur
    ]_vars

\* C8: every activation of a traced function that calls itself produces one
\* sample under the function's entry, and no sample is longer than the
\* sample of its enclosing activation.
C8_Recursion ==
  (lastEv.kind = "return" /\ lastEv.eligible /\ lastEv.recursive) =>
    /\ lastEv.recorded
    /\ lastEv.code \in DOMAIN stats
    /\ lastEv.dur >= lastEv.maxInner

\* C9: no statistics entry is removed and no call_count or total_time
\* decreases; after a second session started by enable() alone, the
\* call_count of a decorated function is the number of its completed
\* traced calls of both sessions.
C9_StatsPersist ==
  [][ /\ \A func \in DOMAIN stats :
           /\ func \in DOMAIN stats'
           /\ stats'[func].call_count >= stats[func].call_count
           /\ stats'[func].total_time >= stats[func].total_time
      /\ (lastOp'.op = "disable" /\ sessions' = 2 /\ noArgSession') =>
           \A func \in decorated_functions' :
             CountOf(stats', func) = CountOf(expected', func)
    ]_vars

\* C10: enable while already enabled leaves the global slot and the
\* recorded previous hook alone; without functions it changes nothing, and
\* with a non-empty list it does what update_functions does with that list.
C10_EnableAgain ==
  [][ lastOp'.op = "enable_again" =>
        /\ globalSlot' = globalSlot
        /\ original_trace_function' = original_trace_function
        /\ IF Truthy(lastOp'.arg)
             THEN \E last \in LastOf({x \in lastOp'.arg : is_builtin_function(x)}) :
                    ApplyUpdate(lastOp'.arg, last)
             ELSE UNCHANGED tracerVars
    ]_vars

\* C10 witness: a second enable with a list has replaced the wrapped
\* built-ins while a previous hook is recorded
C10_Witness ==
  /\ lastOp.op = "enable_again" /\ Truthy(lastOp.arg)
  /\ original_trace_function = "G" /\ globalSlot = "T"
  /\ Rebound # {}

\* C11: a failure of the previous hook while the tracer's hook forwards an
\* event to it never leaves the tracer's hook, whatever the event and
\* whether tracing is enabled or not, and a call context opened for the
\* event is kept.
C11_HookFailureContained ==
  (lastEv.kind \in TraceEventKinds /\ lastEv.toTracer) =>
    /\ ~lastEv.raised
    /\ (lastEv.kind = "call" /\ lastEv.eligible /\ lastEv.hookRet = "raise") =>
         Len(frames) \in DOMAIN call_stack

\* C12: an event that reaches the tracer's hook while tracing is disabled
\* changes neither the in-flight table nor the statistics, is handed to the
\* recorded previous hook once, and the hook returns what that hook
\* returned, or nothing when there is no previous hook.
C12_DisabledHookDelegates ==
  [][ (lastEv'.kind \in TraceEventKinds /\ lastEv'.toTracer /\ ~lastEv'.enabledAt) =>
        /\ call_stack' = call_stack
        /\ stats' = stats
        /\ ~lastEv'.recorded
        /\ lastEv'.nfwd = (IF lastEv'.prev # "none" THEN 1 ELSE 0)
        /\ lastEv'.ret = (IF lastEv'.prev # "none" THEN lastEv'.hookRet ELSE "none")
    ]_vars

\* C12 witness: the return event of a frame that started while tracing was
\* enabled reached the hook after disable, with statistics in the table,
\* and the previous hook answered with a local observer
C12_Witness ==
  /\ lastEv.kind = "return" /\ lastEv.toTracer /\ ~lastEv.enabledAt
  /\ lastEv.prev = "G" /\ lastEv.ret = "L"
  /\ stats # Emp

\* C18: while enabled the tracer's hook returns itself for a call event of
\* a traced function and for a return event that consumes a call context;
\* for every other event it returns what the previous hook returned, or
\* nothing when there is no previous hook or the previous hook failed.
C18_HookReturnValue ==
  (lastEv.kind \in TraceEventKinds /\ lastEv.toTracer /\ lastEv.enabledAt) =>
    lastEv.ret =
      (IF \/ lastEv.kind = "call" /\ lastEv.eligible
          \/ lastEv.kind = "return" /\ lastEv.recorded
         THEN "T"
       ELSE IF lastEv.prev # "none" /\ lastEv.hookRet # "raise"
         THEN lastEv.hookRet
       ELSE "none")

\* C18 witness: the previous hook failed on a line event of a traced frame
\* and the hook returned nothing
C18_Witness ==
  /\ lastEv.kind = "line" /\ lastEv.toTracer /\ lastEv.enabledAt
  /\ lastEv.hookRet = "raise" /\ lastEv.ret = "none"

\* C13: update_functions while enabled leaves the global slot, the recorded
\* previous hook, the enabled flag, the in-flight contexts and the
\* statistics as they are; afterwards the session set is the decorated
\* functions plus the inspectable members of the list, and the wrapped
\* built-ins are the opaque members of the list.
C13_UpdateWhileEnabled ==
  [][ lastOp'.op = "update" =>
        /\ globalSlot' = globalSlot
        /\ original_trace_function' = original_trace_function
        /\ enabled /\ enabled'
        /\ call_stack' = call_stack
        /\ stats' = stats
        /\ traced_functions' = decorated_functions \cup (lastOp'.arg \cap Insp)
        /\ builtin_functions' = lastOp'.arg \cap Opq
        /\ DOMAIN wrapped_builtins' = lastOp'.arg \cap Opq
        /\ DOMAIN original_builtins' = lastOp'.arg \cap Opq
        /\ \A g \in Opq :
             binding'[g].kind = "wrap" <=> (g \in lastOp'.arg /\ Resolvable(g))
    ]_vars

\* C13 witness: an update replaced a traced Python function by two
\* built-ins while a call of that function was in flight and statistics and
\* a previous hook were recorded
C13_Witness ==
  /\ lastOp.op = "update" /\ lastOp.arg = {"g", "k"}
  /\ call_stack # Emp /\ stats # Emp
  /\ original_trace_function = "G"
  /\ "f" \notin traced_functions

\* C14: the substitute of each of two or more built-ins wrapped by one
\* enable or update_functions call calls that built-in's own original and
\* records the sample under that built-in and under no other, while
\* enabled and also when a caller still holds it after disable.
C14_OwnOriginal ==
  [][ lastEv'.kind = "wrapped_ok" =>
        /\ lastEv'.callee = lastEv'.code
        /\ lastEv'.eligible =>
             CountOf(stats', lastEv'.code) = CountOf(stats, lastEv'.code) + 1
        /\ \A g \in Opq \ {lastEv'.code} : CountOf(stats', g) = CountOf(stats, g)
    ]_vars

\* C15: from the return of disable() to the next enable the statistics
\* table does not change, also when a call that began while tracing was
\* enabled finishes in between.
C15_NoSampleAfterDisable ==
  [][ (~enabled /\ ~enabled') => stats' = stats ]_vars

C17_NoLostUpdate ==
  inv = <<>> =>
    \A g \in Opq :
      /\ CountOf(stats, g) = CountOf(expected, g)
      /\ TotalOf(stats, g) = TotalOf(expected, g)

\* C19: whenever tracing is disabled the in-flight table is empty, the sets
\* of built-in functions, originals and substitutes are empty, and every
\* module attribute holds its original callable.
C19_DisabledIsClean ==
  ~enabled =>
    /\ call_stack = Emp
    /\ builtin_functions = {}
    /\ original_builtins = Emp
    /\ wrapped_builtins = Emp
    /\ \A g \in Opq : binding[g] = OrigC(g)

\* C19 witness: tracing was disabled while bindings were rebound and a
\* traced call was in flight
C19_Witness ==
  /\ ~enabled
  /\ lastOp.op = "disable" /\ lastOp.arg # {}
  /\ frames # <<>> /\ Top.f_trace = "T"

\* C20: when only the tracer writes the global slot, the recorded previous
\* hook is never the tracer's own hook, and while tracing is enabled the
\* global slot holds the tracer's hook.
C20_NoSelfChaining ==
  /\ original_trace_function # "T"
  /\ enabled => globalSlot = "T"

\* C20 witness: a second session is running, started after enable was
\* repeated while enabled and the first session was disabled, with the
\* previous hook recorded again
C20_Witness ==
  /\ enabled /\ sessions = 2
  /\ lastOp.op = "enable_again"
  /\ original_trace_function = "G"

====
